---------------------------- MODULE Spec2Model ----------------------------
(***************************************************************************)
(* Cohort generation and leadership assignment of SVWS-MockFactory         *)
(* (src/populate_classes.py).                                              *)
(*                                                                         *)
(* Strings are sequences of code points, so that concatenation, chr(),     *)
(* ord() and upper() are computed the way Python computes them.            *)
(***************************************************************************)
EXTENDS Integers, Sequences, FiniteSets, TLC

(***************************************************************************)
(* Bounds of the model.                                                    *)
(***************************************************************************)
\* largest index handed to generate_class_suffix in SpecSuffix
MaxIndex == 700
\* longest combinatorial template (number of grade-level entries)
MaxGrades == 2
\* at most this many creation calls of one run answer other than "200 with id"
MaxFaults == 2
\* the same for the run that creates 27 classes of one grade level
MaxWideFaults == 1
\* a further run of populate_classes starts while the server has handed out
\* fewer than this many class ids
MaxRunIds == 3
\* largest staff roster
MaxStaff == 6
\* longest cache handed to assign_class_leaders
MaxCohorts == 3
\* a float rounding error is a multiple of 1/FloatGrain, below one unit
FloatGrain == 2
\* kindergarten entries of one batch (generate_kindergarten_entries is called
\* with count=20)
MaxEntries == 2
\* pairs of a prefix and a name (3 * 50 in the source), and suffixes (8 in the
\* source) a kindergarten name is drawn from
MaxBases == 1
MaxSuffixes == 2

(***************************************************************************)
(* Characters and strings.                                                 *)
(***************************************************************************)
\* ord('a')
OrdA == 97
\* the letters a-z of chr(ord('a') + k), k < 26
AlphabetSize == 26
\* ord('a') - ord('A'), the distance str.upper() moves a lowercase letter
UpperShift == 32

chr_a_plus(k) == OrdA + k

IsLower(c) == c >= OrdA /\ c < OrdA + AlphabetSize

upper(c) == IF IsLower(c) THEN c - UpperShift ELSE c

\* "05", "5", "0", "EF", "Q1", "Q2" and further grade codes, as code points
Str_05 == <<48, 53>>
Str_06 == <<48, 54>>
Str_07 == <<48, 55>>
Str_08 == <<48, 56>>
Str_09 == <<48, 57>>
Str_5 == <<53>>
Str_0 == <<48>>
Str_EF == <<69, 70>>
Str_Q1 == <<81, 49>>
Str_Q2 == <<81, 50>>
Str_A == <<65>>
\* "Klasse " and "Jahrgang "
Str_Klasse == <<75, 108, 97, 115, 115, 101, 32>>
Str_Jahrgang == <<74, 97, 104, 114, 103, 97, 110, 103, 32>>

(***************************************************************************)
(* generate_class_suffix                                                   *)
(***************************************************************************)
generate_class_suffix_block0(index) ==
    IF index < AlphabetSize
    THEN <<chr_a_plus(index)>>
    ELSE <<chr_a_plus(index \div AlphabetSize), chr_a_plus(index % AlphabetSize)>>

generate_class_suffix_mod25(index) ==
    IF index < AlphabetSize
    THEN <<chr_a_plus(index)>>
    ELSE <<chr_a_plus((index \div AlphabetSize) - 1),
           chr_a_plus(index % (AlphabetSize - 1))>>

generate_class_suffix(index) ==
    IF index < AlphabetSize
    THEN <<chr_a_plus(index)>>
    ELSE <<chr_a_plus((index \div AlphabetSize) - 1),
           chr_a_plus(index % AlphabetSize)>>


(***************************************************************************)
(* State.                                                                  *)
(***************************************************************************)
VARIABLES
    \* generate_class_suffix applied to an index
    index, suffix,
    \* populate_classes: what it reads
    stammdaten, struktur, jahrgaenge, anzahl_schueler,
    \* populate_classes: its locals
    pc, group, regular_jahrgaenge, oberstufe_jg, classes_per_jahrgang,
    remainder, jg_idx, class_idx, sortierung, created, failed,
    created_classes, result, returned_at,
    \* the requests sent to /klassen/create, the server's id counter, the
    \* number of calls answered other than "200 with id", the cache file
    posted, server_next_id, faults, cache_file,
    \* assign_class_leaders: what it reads and its locals
    lehrer, al_pc, classes, teacher_ids, teacher_assignments, al_idx,
    selected, warned, assigned, al_failed, patched, al_result,
    al_returned_at,
    \* populate_kindergarten: what it reads, its locals, the request last
    \* sent to /kindergarten/create with its answer
    school_data, kg_pc, kindergarten_entries, kg_i, retry_attempt,
    created_count, failed_count, kg_posted, kg_result

suffixVars == <<index, suffix>>

inputVars == <<stammdaten, struktur, jahrgaenge, anzahl_schueler>>

planVars ==
    <<group, regular_jahrgaenge, oberstufe_jg, classes_per_jahrgang, remainder>>

loopVars ==
    <<jg_idx, class_idx, sortierung, created, failed, created_classes>>

wireVars == <<posted, server_next_id, faults>>

classVars ==
    <<inputVars, pc, planVars, loopVars, result, returned_at, wireVars>>

leaderVars ==
    <<lehrer, al_pc, classes, teacher_ids, teacher_assignments, al_idx,
      selected, warned, assigned, al_failed, patched, al_result,
      al_returned_at>>

kgVars ==
    <<school_data, kg_pc, kindergarten_entries, kg_i, retry_attempt,
      created_count, failed_count, kg_posted, kg_result>>

vars == <<suffixVars, classVars, cache_file, leaderVars, kgVars>>

\* Python's None for a group, a file that does not exist, a function that has
\* not returned
NoneGroup == [name |-> "None", schulformen |-> {}, jahrgaenge |-> <<>>]
NoFile == [exists |-> FALSE, content |-> <<>>]
NoResult == <<>>

(***************************************************************************)
(* The values of the variables a specification does not use.               *)
(***************************************************************************)
SuffixIdle == index = 0 /\ suffix = <<>>

ClassesIdle ==
    /\ stammdaten = [schulform |-> "", idSchuljahresabschnitt |-> 0]
    /\ struktur = <<>>
    /\ jahrgaenge = <<>>
    /\ anzahl_schueler = 0
    /\ pc = "idle"
    /\ group = NoneGroup
    /\ regular_jahrgaenge = <<>>
    /\ oberstufe_jg = <<>>
    /\ classes_per_jahrgang = 0
    /\ remainder = 0
    /\ jg_idx = 0
    /\ class_idx = 0
    /\ sortierung = 1
    /\ created = 0
    /\ failed = 0
    /\ created_classes = <<>>
    /\ result = NoResult
    /\ returned_at = ""
    /\ posted = <<>>
    /\ server_next_id = 1
    /\ faults = 0

LeadersIdle ==
    /\ lehrer = <<>>
    /\ al_pc = "idle"
    /\ classes = <<>>
    /\ teacher_ids = <<>>
    /\ teacher_assignments = <<>>
    /\ al_idx = 0
    /\ selected = <<>>
    /\ warned = FALSE
    /\ assigned = 0
    /\ al_failed = 0
    /\ patched = <<>>
    /\ al_result = NoResult
    /\ al_returned_at = ""

KindergartenIdle ==
    /\ school_data = [schulform |-> ""]
    /\ kg_pc = "idle"
    /\ kindergarten_entries = <<>>
    /\ kg_i = 0
    /\ retry_attempt = 0
    /\ created_count = 0
    /\ failed_count = 0
    /\ kg_posted = <<>>
    /\ kg_result = NoResult

(***************************************************************************)
(* SpecSuffix: generate_class_suffix applied to every index up to MaxIndex.*)
(***************************************************************************)
InitSuffix ==
    /\ index \in 0..MaxIndex
    /\ suffix = <<>>
    /\ ClassesIdle
    /\ cache_file = NoFile
    /\ LeadersIdle
    /\ KindergartenIdle

ApplySuffix ==
    /\ suffix = <<>>
    /\ suffix' = generate_class_suffix(index)
    /\ UNCHANGED <<index, classVars, cache_file, leaderVars,
                   kgVars>>

NextSuffix == ApplySuffix

SpecSuffix == InitSuffix /\ [][NextSuffix]_vars

(***************************************************************************)
(* Claims about generate_class_suffix (SpecSuffix).                        *)
(***************************************************************************)
\* "abcdefghijklmnopqrstuvwxyz"
Alphabet ==
    <<97, 98, 99, 100, 101, 102, 103, 104, 105, 106, 107, 108, 109,
      110, 111, 112, 113, 114, 115, 116, 117, 118, 119, 120, 121, 122>>

Letter(k) == Alphabet[k + 1]

SuffixCeiling == AlphabetSize * AlphabetSize

\* the suffix of index k < 676 as section 4.3 of the specification gives it
SuffixRef(k) ==
    IF k < 26
    THEN <<Letter(k)>>
    ELSE <<Letter((k \div 26) - 1), Letter(k % 26)>>

\* C8: generate_class_suffix(index) is the single letter at position index
\* for index < 26, and letter(index div 26 - 1) followed by
\* letter(index mod 26) for 26 <= index < 676; 0->a, 25->z, 26->aa, 51->az,
\* 52->ba, 77->bz, 78->ca.
C8_SuffixScheme ==
    suffix # <<>> =>
        /\ index < 26 => suffix = <<Letter(index)>>
        /\ (index >= 26 /\ index < SuffixCeiling) =>
               suffix = <<Letter((index \div 26) - 1), Letter(index % 26)>>
        /\ index = 0 => suffix = <<97>>
        /\ index = 25 => suffix = <<122>>
        /\ index = 26 => suffix = <<97, 97>>
        /\ index = 51 => suffix = <<97, 122>>
        /\ index = 52 => suffix = <<98, 97>>
        /\ index = 77 => suffix = <<98, 122>>
        /\ index = 78 => suffix = <<99, 97>>

C8_Witness == index = 78 /\ suffix = <<99, 97>>

\* C9: generate_class_suffix is injective on 0 <= index < 676, and every
\* suffix in that range is one or two lowercase letters a-z.
C9_SuffixInjective ==
    (suffix # <<>> /\ index < SuffixCeiling) =>
        /\ Len(suffix) \in {1, 2}
        /\ \A i \in 1..Len(suffix) : \E k \in 0..25 : suffix[i] = Letter(k)
        /\ \A j \in 0..(SuffixCeiling - 1) :
               j # index => generate_class_suffix(j) # suffix

C9_Witness == index = SuffixCeiling - 1 /\ suffix = <<121, 122>>

(***************************************************************************)
(* populate_classes: the pure parts.                                       *)
(***************************************************************************)
Max(a, b) == IF a >= b THEN a ELSE b

\* classes_per_student = 25
classes_per_student == 25

\* the first group that lists the school form, or None
find_schulform_group_last(sf, st) ==
    IF \E i \in 1..Len(st) : sf \in st[i].schulformen
    THEN st[CHOOSE i \in 1..Len(st) :
                /\ sf \in st[i].schulformen
                /\ \A k \in (i + 1)..Len(st) : sf \notin st[k].schulformen]
    ELSE NoneGroup

find_schulform_group(sf, st) ==
    IF \E i \in 1..Len(st) : sf \in st[i].schulformen
    THEN st[CHOOSE i \in 1..Len(st) :
                /\ sf \in st[i].schulformen
                /\ \A k \in 1..(i - 1) : sf \notin st[k].schulformen]
    ELSE NoneGroup

\* the id of the first directory entry with that kuerzel, or 0
map_jahrgang_id(kuerzel, jgs) ==
    IF \E i \in 1..Len(jgs) : jgs[i].kuerzel = kuerzel
    THEN jgs[CHOOSE i \in 1..Len(jgs) :
                 /\ jgs[i].kuerzel = kuerzel
                 /\ \A k \in 1..(i - 1) : jgs[k].kuerzel # kuerzel].id
    ELSE 0

oberstufe_jahrgaenge == {Str_EF, Str_Q1, Str_Q2}

is_oberstufe_schulform(sf) == sf \in {"GY", "GE", "HI"}

IsOberstufe_anyform(jg, sf) == jg.kuerzel \in oberstufe_jahrgaenge

IsOberstufe(jg, sf) ==
    jg.kuerzel \in oberstufe_jahrgaenge /\ is_oberstufe_schulform(sf)

RegularOf(template, sf) ==
    SelectSeq(template, LAMBDA jg : ~IsOberstufe(jg, sf))

OberstufeOf(template, sf) ==
    SelectSeq(template, LAMBDA jg : IsOberstufe(jg, sf))

omit_schulgliederung_noS(sf) == sf \in {"H", "SK", "R", "SR"}

omit_schulgliederung(sf) == sf \in {"H", "SK", "R", "SR", "S"}

\* int(x) of a float x = numer / denom: truncation towards zero
TruncToInt(numer, denom) ==
    IF numer >= 0 THEN numer \div denom ELSE -((-numer) \div denom)

\* The error of the float product (anzahl / num) * num against anzahl, in
\* units of 1 / FloatGrain: none when the division is exact, otherwise any
\* value below one unit.
RoundingErrors(anzahl, num) ==
    IF anzahl % num = 0 THEN {0} ELSE (1 - FloatGrain)..(FloatGrain - 1)

\* int(students_per_grade // classes_per_student), students_per_grade being
\* the float anzahl / num: a quotient that is not an integer lies at least
\* 1 / num from every multiple of 25, so rounding never crosses one.
FloorClassesOf(anzahl, num) == anzahl \div (num * classes_per_student)

ClassesPerJahrgang_regular(anzahl, num, num_regular) ==
    IF num_regular > 0
    THEN Max(1, anzahl \div (num_regular * classes_per_student))
    ELSE 0

ClassesPerJahrgang(anzahl, num, num_regular) ==
    IF num_regular > 0 THEN Max(1, FloorClassesOf(anzahl, num)) ELSE 0

\* int(anzahl_schueler - (students_per_grade * num_jahrgaenge))
\* the students beyond whole rounds of one class per grade level
RemainderStudents_beyond(anzahl, num, err) ==
    anzahl % (num * classes_per_student)

RemainderStudents(anzahl, num, err) ==
    TruncToInt(anzahl * FloatGrain - (anzahl * FloatGrain + err), FloatGrain)

Remainder_leftover(anzahl, num, num_regular, err) ==
    IF num_regular > 0
    THEN Max(0, Max(1, anzahl \div classes_per_student)
                 - ClassesPerJahrgang(anzahl, num, num_regular) * num_regular)
    ELSE 0

Remainder(anzahl, num, num_regular, err) ==
    IF num_regular > 0
    THEN Max(0, RemainderStudents(anzahl, num, err) \div classes_per_student)
    ELSE 0

\* num_classes_this_jg of the regular grade level at (0-based) position i
NumClassesThisJg(cpj, rem, i) == cpj + (IF i < rem THEN 1 ELSE 0)

RegularKuerzel_nosuffix(jg, sfx) ==
    IF jg.prefix # <<>> THEN jg.prefix \o jg.kuerzel ELSE jg.kuerzel

RegularKuerzel(jg, sfx) ==
    IF jg.prefix # <<>>
    THEN jg.prefix \o jg.kuerzel \o sfx
    ELSE jg.kuerzel \o sfx

OberstufeKuerzel(jg) == jg.kuerzel

Payload(sf, abschnitt, kuerzel, jg_id, parallelitaet, sort, beschreibung) ==
    IF sf \in {"BK", "SB"}
    THEN [idSchuljahresabschnitt |-> abschnitt,
          kuerzel |-> kuerzel,
          idJahrgang |-> jg_id,
          parallelitaet |-> parallelitaet,
          sortierung |-> sort,
          beschreibung |-> beschreibung,
          idBerufsbildendOrganisationsform |-> 1005000,
          idKlassenart |-> 7001,
          idSchulgliederung |-> 1001000]
    ELSE LET base == [idSchuljahresabschnitt |-> abschnitt,
                      kuerzel |-> kuerzel,
                      idJahrgang |-> jg_id,
                      parallelitaet |-> parallelitaet,
                      sortierung |-> sort,
                      beschreibung |-> beschreibung,
                      idAllgemeinbildendOrganisationsform |-> 3001001,
                      idKlassenart |-> 7002]
         IN  IF omit_schulgliederung(sf)
             THEN base
             ELSE base @@ ("idSchulgliederung" :> 0)

(***************************************************************************)
(* populate_classes: what one run reads.                                   *)
(***************************************************************************)
Entry(p, k) == [kuerzel |-> k, prefix |-> p]

\* grade-level entries of the combinatorial templates: "05", "0" + "5",
\* "EF" and "0" + "EF"
EntrySet ==
    {Entry(<<>>, Str_05), Entry(Str_0, Str_5),
     Entry(<<>>, Str_EF), Entry(Str_0, Str_EF)}

Templates == UNION {[1..n -> EntrySet] : n \in 0..MaxGrades}

FiveRegular ==
    <<Entry(<<>>, Str_05), Entry(<<>>, Str_06), Entry(<<>>, Str_07),
      Entry(<<>>, Str_08), Entry(<<>>, Str_09)>>

ThreePlusThree ==
    <<Entry(<<>>, Str_05), Entry(<<>>, Str_06), Entry(<<>>, Str_07),
      Entry(<<>>, Str_EF), Entry(<<>>, Str_Q1), Entry(<<>>, Str_Q2)>>

\* klassenstruktur.json: the first group carries the template, a second
\* group lists "G" again
Catalog(template) ==
    <<[name |-> "Gruppe 1",
       schulformen |->
           {"G", "GY", "GE", "HI", "H", "SK", "R", "SR", "S", "BK"},
       jahrgaenge |-> template],
      [name |-> "Gruppe 2", schulformen |-> {"G"},
       jahrgaenge |-> <<Entry(<<>>, Str_09)>>]>>

Schulformen == {"GY", "G", "H", "BK", "SB", "ZZ"}

JgEntry(k, i) == [kuerzel |-> k, id |-> i]

\* /jahrgaenge: every grade level, "05" listed a second time
FullDirectory ==
    <<JgEntry(Str_05, 1), JgEntry(Str_5, 2), JgEntry(Str_EF, 3),
      JgEntry(Str_06, 4), JgEntry(Str_07, 5), JgEntry(Str_08, 6),
      JgEntry(Str_09, 7), JgEntry(Str_Q1, 8), JgEntry(Str_Q2, 9),
      JgEntry(Str_05, 10)>>

DirectoryWithout(codes) ==
    SelectSeq(FullDirectory, LAMBDA e : e.kuerzel \notin codes)

\* the entry of "EF" carries no id: jg.get('id', 0)
DirectoryEFNoId ==
    [i \in 1..Len(FullDirectory) |->
        IF FullDirectory[i].kuerzel = Str_EF
        THEN JgEntry(Str_EF, 0)
        ELSE FullDirectory[i]]

Directories ==
    {FullDirectory, DirectoryWithout({Str_05}), DirectoryWithout({Str_EF}),
     DirectoryWithout({Str_05, Str_EF}), DirectoryEFNoId}

SmallStudents == {1, 100}

\* students for 27 classes of one grade level: one more than the alphabet
ManyStudents == (AlphabetSize + 1) * classes_per_student

Input(sf, abschnitt, st, dir, n) ==
    [schulform |-> sf, abschnitt |-> abschnitt, struktur |-> st,
     jahrgaenge |-> dir, anzahl |-> n]

Inputs ==
    \* every small template with every school form and directory
    {Input(sf, 1, Catalog(t), dir, n) :
        sf \in Schulformen, t \in Templates, dir \in Directories,
        n \in SmallStudents}
    \cup
    \* the scenarios of five regular, and three regular and three capstone,
    \* grade levels
    {Input("G", 1, Catalog(FiveRegular), FullDirectory, 200),
     Input("G", 1, Catalog(FiveRegular), FullDirectory, 210),
     Input("G", 1, Catalog(FiveRegular), FullDirectory, 211),
     Input("GY", 1, Catalog(ThreePlusThree), FullDirectory, 300),
     Input("H", 1, Catalog(ThreePlusThree), FullDirectory, 300),
     Input("GE", 1, Catalog(ThreePlusThree), FullDirectory, 300),
     Input("HI", 1, Catalog(ThreePlusThree), FullDirectory, 300),
     Input("G", 1, Catalog(<<Entry(<<>>, Str_05)>>), FullDirectory,
           ManyStudents)}
    \cup
    \* the school forms for which idSchulgliederung is left out
    {Input(sf, 1, Catalog(<<Entry(<<>>, Str_05), Entry(<<>>, Str_EF)>>),
           FullDirectory, 100) : sf \in {"SK", "R", "SR", "S"}}
    \cup
    \* master data without school form or term, a catalog without groups
    {Input("", 1, Catalog(FiveRegular), FullDirectory, 200),
     Input("G", 0, Catalog(FiveRegular), FullDirectory, 200),
     Input("BK", 0, Catalog(FiveRegular), FullDirectory, 200),
     Input("G", 1, <<>>, FullDirectory, 200),
     Input("BK", 1, <<>>, <<>>, 0)}

(***************************************************************************)
(* Spec: one run of populate_classes.                                      *)
(***************************************************************************)
Init ==
    /\ SuffixIdle
    /\ \E in \in Inputs :
        /\ stammdaten = [schulform |-> in.schulform,
                         idSchuljahresabschnitt |-> in.abschnitt]
        /\ struktur = in.struktur
        /\ jahrgaenge = in.jahrgaenge
        /\ anzahl_schueler = in.anzahl
    /\ pc = "start"
    /\ group = NoneGroup
    /\ regular_jahrgaenge = <<>>
    /\ oberstufe_jg = <<>>
    /\ classes_per_jahrgang = 0
    /\ remainder = 0
    /\ jg_idx = 0
    /\ class_idx = 0
    /\ sortierung = 1
    /\ created = 0
    /\ failed = 0
    /\ created_classes = <<>>
    /\ result = NoResult
    /\ returned_at = ""
    /\ posted = <<>>
    /\ server_next_id = 1
    /\ faults = 0
    /\ cache_file = NoFile
    /\ LeadersIdle
    /\ KindergartenIdle

schulform == stammdaten.schulform

id_schuljahresabschnitt == stammdaten.idSchuljahresabschnitt

\* a return statement; at names the place of the return
Return(c, f, at) ==
    /\ pc' = "done"
    /\ result' = <<c, f>>
    /\ returned_at' = at

\* fetch_stammdaten raises
PC_StammdatenError ==
    /\ pc = "start"
    /\ Return(0, 1, "stammdaten_error")
    /\ UNCHANGED <<suffixVars, inputVars, planVars, loopVars, wireVars,
                   cache_file, leaderVars,
                   kgVars>>

PC_NoSchulform ==
    /\ pc = "start"
    /\ schulform = ""
    /\ Return(0, 1, "no_schulform")
    /\ UNCHANGED <<suffixVars, inputVars, planVars, loopVars, wireVars,
                   cache_file, leaderVars,
                   kgVars>>

PC_NoAbschnitt ==
    /\ pc = "start"
    /\ schulform # ""
    /\ id_schuljahresabschnitt = 0
    /\ Return(0, 1, "no_abschnitt")
    /\ UNCHANGED <<suffixVars, inputVars, planVars, loopVars, wireVars,
                   cache_file, leaderVars,
                   kgVars>>

StammdatenOk == schulform # "" /\ id_schuljahresabschnitt # 0

IsVocational_BK(sf) == sf = "BK"

IsVocational(sf) == sf \in {"BK", "SB"}

PC_SkipVocational ==
    /\ pc = "start"
    /\ StammdatenOk
    /\ IsVocational(schulform)
    /\ Return(0, 0, "vocational")
    /\ UNCHANGED <<suffixVars, inputVars, planVars, loopVars, wireVars,
                   cache_file, leaderVars,
                   kgVars>>

PC_NoGroup ==
    /\ pc = "start"
    /\ StammdatenOk
    /\ ~IsVocational(schulform)
    /\ find_schulform_group(schulform, struktur) = NoneGroup
    /\ Return(0, 1, "no_group")
    /\ UNCHANGED <<suffixVars, inputVars, planVars, loopVars, wireVars,
                   cache_file, leaderVars,
                   kgVars>>

GroupFound ==
    /\ StammdatenOk
    /\ ~IsVocational(schulform)
    /\ find_schulform_group(schulform, struktur) # NoneGroup

\* fetch_jahrgaenge raises
PC_JahrgaengeError ==
    /\ pc = "start"
    /\ GroupFound
    /\ group' = find_schulform_group(schulform, struktur)
    /\ Return(0, 1, "jahrgaenge_error")
    /\ UNCHANGED <<suffixVars, inputVars, regular_jahrgaenge, oberstufe_jg,
                   classes_per_jahrgang, remainder, loopVars, wireVars,
                   cache_file, leaderVars,
                   kgVars>>

PC_NoJahrgaenge ==
    /\ pc = "start"
    /\ GroupFound
    /\ group' = find_schulform_group(schulform, struktur)
    /\ Len(group'.jahrgaenge) = 0
    /\ Return(0, 1, "no_jahrgaenge")
    /\ UNCHANGED <<suffixVars, inputVars, regular_jahrgaenge, oberstufe_jg,
                   classes_per_jahrgang, remainder, loopVars, wireVars,
                   cache_file, leaderVars,
                   kgVars>>

\* where the loops stand: the regular loop at (j, c), then the Oberstufe
\* loop at j, then the end of the function
EnterOberstufe(ob) ==
    IF Len(ob) > 0 THEN <<"oberstufe", 0, 0>> ELSE <<"finish", 0, 0>>

AfterRegular(reg, ob, j, c) ==
    IF j < Len(reg) THEN <<"regular", j, c>> ELSE EnterOberstufe(ob)

AfterOberstufe_stop(ob, j) == <<"finish", 0, 0>>

AfterOberstufe(ob, j) ==
    IF j < Len(ob) THEN <<"oberstufe", j, 0>> ELSE <<"finish", 0, 0>>

Goto(pos) ==
    /\ pc' = pos[1]
    /\ jg_idx' = pos[2]
    /\ class_idx' = pos[3]

\* lines 179-254: the partition of the template and the cohort counts
PC_Plan ==
    /\ pc = "start"
    /\ GroupFound
    /\ LET g == find_schulform_group(schulform, struktur)
           template_jahrgaenge == g.jahrgaenge
           num_jahrgaenge == Len(template_jahrgaenge)
           reg == RegularOf(template_jahrgaenge, schulform)
           ob == OberstufeOf(template_jahrgaenge, schulform)
       IN  /\ num_jahrgaenge # 0
           /\ group' = g
           /\ regular_jahrgaenge' = reg
           /\ oberstufe_jg' = ob
           /\ classes_per_jahrgang' =
                  ClassesPerJahrgang(anzahl_schueler, num_jahrgaenge, Len(reg))
           /\ \E err \in RoundingErrors(anzahl_schueler, num_jahrgaenge) :
                  remainder' =
                      Remainder(anzahl_schueler, num_jahrgaenge, Len(reg), err)
           /\ Goto(AfterRegular(reg, ob, 0, 0))
    /\ created' = 0
    /\ failed' = 0
    /\ created_classes' = <<>>
    /\ sortierung' = 1
    /\ UNCHANGED <<suffixVars, inputVars, result, returned_at, wireVars,
                   cache_file,
                   leaderVars,
                   kgVars>>

\* The answers to a creation call: 200/201 with an id in the body; 200/201
\* whose body has no (truthy) id or is no JSON; another status; a
\* RequestException.
Responses == {"ok_id", "ok_noid", "http_error", "exception"}

IsSuccess(resp) == resp \in {"ok_id", "ok_noid"}

\* sortierung += 1, before the call is made
SortierungAfter_onSuccess(s, resp) == IF IsSuccess(resp) THEN s + 1 ELSE s

SortierungAfter(s, resp) == s + 1

\* the calls of one run answered other than "200 with id": at most MaxFaults,
\* and MaxWideFaults in the run of ManyStudents
FaultCap ==
    IF anzahl_schueler = ManyStudents THEN MaxWideFaults ELSE MaxFaults

\* lines 327-348 and 408-429: the counters and the list of created classes
Respond(resp, kuerzel) ==
    /\ resp \in Responses
    /\ resp # "ok_id" => faults < FaultCap
    /\ faults' = IF resp = "ok_id" THEN faults ELSE faults + 1
    /\ created' = IF IsSuccess(resp) THEN created + 1 ELSE created
    /\ failed' = IF IsSuccess(resp) THEN failed ELSE failed + 1
    /\ created_classes' =
           IF resp = "ok_id"
           THEN Append(created_classes,
                       [id |-> server_next_id, kuerzel |-> kuerzel])
           ELSE created_classes
    /\ server_next_id' =
           IF IsSuccess(resp) THEN server_next_id + 1 ELSE server_next_id

\* the regular loop after the call for class c of grade level j
NextRegularPos_abort(reg, ob, cpj, rem, j, c, resp) ==
    IF resp = "exception"
    THEN <<"finish", 0, 0>>
    ELSE IF c + 1 < NumClassesThisJg(cpj, rem, j)
         THEN <<"regular", j, c + 1>>
         ELSE AfterRegular(reg, ob, j + 1, 0)

NextRegularPos(reg, ob, cpj, rem, j, c, resp) ==
    IF c + 1 < NumClassesThisJg(cpj, rem, j)
    THEN <<"regular", j, c + 1>>
    ELSE AfterRegular(reg, ob, j + 1, 0)

\* a sortierung that counts the created classes only
RegularPayload_sortCreated(jg, jg_id, c, sort) ==
    LET sfx == generate_class_suffix(c)
        kuerzel == RegularKuerzel(jg, sfx)
    IN  Payload(schulform, id_schuljahresabschnitt, kuerzel, jg_id,
                <<upper(sfx[1])>>, created + 1, Str_Klasse \o kuerzel)

RegularPayload(jg, jg_id, c, sort) ==
    LET sfx == generate_class_suffix(c)
        parallelitaet == <<upper(sfx[1])>>
        kuerzel == RegularKuerzel(jg, sfx)
    IN  Payload(schulform, id_schuljahresabschnitt, kuerzel, jg_id,
                parallelitaet, sort, Str_Klasse \o kuerzel)

\* a sortierung counted from 1 again in the Oberstufe loop
OberstufePayload_restart(jg, jg_id, sort) ==
    Payload(schulform, id_schuljahresabschnitt, OberstufeKuerzel(jg), jg_id,
            Str_A, jg_idx + 1, Str_Jahrgang \o jg.kuerzel)

OberstufePayload(jg, jg_id, sort) ==
    LET kuerzel == OberstufeKuerzel(jg)
    IN  Payload(schulform, id_schuljahresabschnitt, kuerzel, jg_id,
                Str_A, sort, Str_Jahrgang \o jg.kuerzel)

PC_RegularSkip_counted ==
    /\ pc = "regular"
    /\ map_jahrgang_id(regular_jahrgaenge[jg_idx + 1].kuerzel, jahrgaenge) = 0
    /\ Goto(AfterRegular(regular_jahrgaenge, oberstufe_jg, jg_idx + 1, 0))
    /\ sortierung' = sortierung + 1
    /\ UNCHANGED <<suffixVars, inputVars, planVars, created, failed,
                   created_classes, result, returned_at, wireVars,
                   cache_file, leaderVars,
                   kgVars>>

PC_RegularSkip_failed ==
    /\ pc = "regular"
    /\ map_jahrgang_id(regular_jahrgaenge[jg_idx + 1].kuerzel, jahrgaenge) = 0
    /\ Goto(AfterRegular(regular_jahrgaenge, oberstufe_jg, jg_idx + 1, 0))
    /\ failed' = failed + 1
    /\ UNCHANGED <<suffixVars, inputVars, planVars, sortierung, created,
                   created_classes, result, returned_at, wireVars,
                   cache_file, leaderVars,
                   kgVars>>

\* lines 264-266: the grade level is not in the directory
PC_RegularSkip ==
    /\ pc = "regular"
    /\ map_jahrgang_id(regular_jahrgaenge[jg_idx + 1].kuerzel, jahrgaenge) = 0
    /\ Goto(AfterRegular(regular_jahrgaenge, oberstufe_jg, jg_idx + 1, 0))
    /\ UNCHANGED <<suffixVars, inputVars, planVars, sortierung, created,
                   failed, created_classes, result, returned_at, wireVars,
                   cache_file,
                   leaderVars,
                   kgVars>>

\* lines 276-348: one pass of the inner loop
CreateRegular(resp) ==
    /\ pc = "regular"
    /\ LET jg == regular_jahrgaenge[jg_idx + 1]
           jg_id == map_jahrgang_id(jg.kuerzel, jahrgaenge)
           payload == RegularPayload(jg, jg_id, class_idx, sortierung)
       IN  /\ jg_id # 0
           /\ posted' = Append(posted,
                  [payload |-> payload, phase |-> "regular",
                   jg_idx |-> jg_idx, class_idx |-> class_idx,
                   resp |-> resp])
           /\ sortierung' = SortierungAfter(sortierung, resp)
           /\ Respond(resp, payload.kuerzel)
           /\ Goto(NextRegularPos(regular_jahrgaenge, oberstufe_jg,
                                  classes_per_jahrgang, remainder,
                                  jg_idx, class_idx, resp))
    /\ UNCHANGED <<suffixVars, inputVars, planVars, result, returned_at,
                   cache_file,
                   leaderVars,
                   kgVars>>

PC_RegularCreated ==
    /\ pc = "regular"
    /\ CreateRegular("ok_id")

PC_RegularCreatedNoId ==
    /\ pc = "regular"
    /\ CreateRegular("ok_noid")

PC_RegularHttpError ==
    /\ pc = "regular"
    /\ CreateRegular("http_error")

PC_RegularException ==
    /\ pc = "regular"
    /\ CreateRegular("exception")

\* lines 359-361
PC_OberstufeSkip ==
    /\ pc = "oberstufe"
    /\ map_jahrgang_id(oberstufe_jg[jg_idx + 1].kuerzel, jahrgaenge) = 0
    /\ Goto(AfterOberstufe(oberstufe_jg, jg_idx + 1))
    /\ UNCHANGED <<suffixVars, inputVars, planVars, sortierung, created,
                   failed, created_classes, result, returned_at, wireVars,
                   cache_file,
                   leaderVars,
                   kgVars>>

\* lines 363-429: one pass of the Oberstufe loop
CreateOberstufe(resp) ==
    /\ pc = "oberstufe"
    /\ LET jg == oberstufe_jg[jg_idx + 1]
           jg_id == map_jahrgang_id(jg.kuerzel, jahrgaenge)
           payload == OberstufePayload(jg, jg_id, sortierung)
       IN  /\ jg_id # 0
           /\ posted' = Append(posted,
                  [payload |-> payload, phase |-> "oberstufe",
                   jg_idx |-> jg_idx, class_idx |-> 0, resp |-> resp])
           /\ sortierung' = SortierungAfter(sortierung, resp)
           /\ Respond(resp, payload.kuerzel)
           /\ Goto(AfterOberstufe(oberstufe_jg, jg_idx + 1))
    /\ UNCHANGED <<suffixVars, inputVars, planVars, result, returned_at,
                   cache_file,
                   leaderVars,
                   kgVars>>

PC_OberstufeCreated ==
    /\ pc = "oberstufe"
    /\ CreateOberstufe("ok_id")

PC_OberstufeCreatedNoId ==
    /\ pc = "oberstufe"
    /\ CreateOberstufe("ok_noid")

PC_OberstufeHttpError ==
    /\ pc = "oberstufe"
    /\ CreateOberstufe("http_error")

PC_OberstufeException ==
    /\ pc = "oberstufe"
    /\ CreateOberstufe("exception")

\* lines 433-446: the cache is written when a class with an id was created
PC_Finish ==
    /\ pc = "finish"
    /\ cache_file' =
           IF created_classes # <<>>
           THEN [exists |-> TRUE, content |-> created_classes]
           ELSE cache_file
    /\ Return(created, failed, "end")
    /\ UNCHANGED <<suffixVars, inputVars, planVars, loopVars, wireVars,
                   leaderVars,
                   kgVars>>

Next ==
    \/ PC_StammdatenError
    \/ PC_NoSchulform
    \/ PC_NoAbschnitt
    \/ PC_SkipVocational
    \/ PC_NoGroup
    \/ PC_JahrgaengeError
    \/ PC_NoJahrgaenge
    \/ PC_Plan
    \/ PC_RegularSkip
    \/ PC_RegularCreated
    \/ PC_RegularCreatedNoId
    \/ PC_RegularHttpError
    \/ PC_RegularException
    \/ PC_OberstufeSkip
    \/ PC_OberstufeCreated
    \/ PC_OberstufeCreatedNoId
    \/ PC_OberstufeHttpError
    \/ PC_OberstufeException
    \/ PC_Finish

Spec == Init /\ [][Next]_vars

(***************************************************************************)
(* SpecRuns: populate_classes run again and again, as by running the       *)
(* module as a script; the cache file and the server's ids outlive a run.  *)
(***************************************************************************)
RunTemplate == <<Entry(<<>>, Str_05), Entry(<<>>, Str_EF)>>

RunInputs ==
    {Input("GY", 1, Catalog(RunTemplate), FullDirectory, 1),
     Input("GY", 1, Catalog(RunTemplate),
           DirectoryWithout({Str_05, Str_EF}), 1),
     Input("G", 1, Catalog(<<>>), FullDirectory, 1),
     Input("BK", 1, Catalog(RunTemplate), FullDirectory, 1),
     Input("ZZ", 1, Catalog(RunTemplate), FullDirectory, 1),
     Input("", 1, Catalog(RunTemplate), FullDirectory, 1),
     Input("G", 0, Catalog(RunTemplate), FullDirectory, 1)}

InitRuns ==
    /\ SuffixIdle
    /\ \E in \in RunInputs :
        /\ stammdaten = [schulform |-> in.schulform,
                         idSchuljahresabschnitt |-> in.abschnitt]
        /\ struktur = in.struktur
        /\ jahrgaenge = in.jahrgaenge
        /\ anzahl_schueler = in.anzahl
    /\ pc = "start"
    /\ group = NoneGroup
    /\ regular_jahrgaenge = <<>>
    /\ oberstufe_jg = <<>>
    /\ classes_per_jahrgang = 0
    /\ remainder = 0
    /\ jg_idx = 0
    /\ class_idx = 0
    /\ sortierung = 1
    /\ created = 0
    /\ failed = 0
    /\ created_classes = <<>>
    /\ result = NoResult
    /\ returned_at = ""
    /\ posted = <<>>
    /\ server_next_id = 1
    /\ faults = 0
    /\ cache_file = NoFile
    /\ LeadersIdle
    /\ KindergartenIdle

\* populate_classes is called again: its locals are new, what it reads may
\* have changed, the cache file and the server's ids are as the run before
\* left them
PC_RunAgain ==
    /\ pc = "done"
    /\ server_next_id <= MaxRunIds
    /\ \E in \in RunInputs :
        /\ stammdaten' = [schulform |-> in.schulform,
                          idSchuljahresabschnitt |-> in.abschnitt]
        /\ struktur' = in.struktur
        /\ jahrgaenge' = in.jahrgaenge
        /\ anzahl_schueler' = in.anzahl
    /\ pc' = "start"
    /\ group' = NoneGroup
    /\ regular_jahrgaenge' = <<>>
    /\ oberstufe_jg' = <<>>
    /\ classes_per_jahrgang' = 0
    /\ remainder' = 0
    /\ jg_idx' = 0
    /\ class_idx' = 0
    /\ sortierung' = 1
    /\ created' = 0
    /\ failed' = 0
    /\ created_classes' = <<>>
    /\ result' = NoResult
    /\ returned_at' = ""
    /\ posted' = <<>>
    /\ faults' = 0
    /\ UNCHANGED <<suffixVars, server_next_id, cache_file, leaderVars,
                   kgVars>>

NextRuns ==
    \/ Next
    \/ PC_RunAgain

SpecRuns == InitRuns /\ [][NextRuns]_vars

(***************************************************************************)
(* Claims about one run of populate_classes (Spec).                        *)
(***************************************************************************)
\* the run got past planning
Planned == Len(regular_jahrgaenge) + Len(oberstufe_jg) > 0

\* the run returned from the end of the function
Finished == pc = "done" /\ Planned

Resolved(jg) == map_jahrgang_id(jg.kuerzel, jahrgaenge) # 0

PostedOf(phase, j) ==
    {i \in 1..Len(posted) : posted[i].phase = phase /\ posted[i].jg_idx = j}

IsPrefixOf(s, t) == Len(s) <= Len(t) /\ SubSeq(t, 1, Len(s)) = s

BaseCode(jg) == jg.prefix \o jg.kuerzel

\* no two entries of the template share a kuerzel, and no regular entry's
\* prefix + kuerzel is an initial segment of another regular entry's
TemplateUnambiguous ==
    /\ \A i, k \in 1..Len(group.jahrgaenge) :
           i # k => group.jahrgaenge[i].kuerzel # group.jahrgaenge[k].kuerzel
    /\ \A i, k \in 1..Len(regular_jahrgaenge) :
           i # k => ~IsPrefixOf(BaseCode(regular_jahrgaenge[i]),
                                BaseCode(regular_jahrgaenge[k]))

CodesDistinct ==
    \A i, k \in 1..Len(posted) :
        i # k => posted[i].payload.kuerzel # posted[k].payload.kuerzel

\* C3 as claimed: for every template, school form, directory and student
\* count the codes of all records submitted in one run are pairwise distinct.
C3_Original == CodesDistinct

\* C3 amended: the codes of all records submitted in one run are pairwise
\* distinct when no two grade-level entries of the template share a kuerzel
\* and no regular entry's prefix + kuerzel is an initial segment of another's.
C3_CodesDistinct == TemplateUnambiguous => CodesDistinct

C3_Witness ==
    /\ Finished
    /\ TemplateUnambiguous
    /\ Len(posted) = 9
    /\ Cardinality(PostedOf("oberstufe", 0)) = 1

\* C4: the sortierung of the i-th submitted record is i: the values start
\* at 1, are pairwise distinct and strictly increase in submission order
\* across grade levels and across both phases.
C4_SortOrder ==
    /\ \A i \in 1..Len(posted) : posted[i].payload.sortierung = i
    /\ \A i, k \in 1..Len(posted) :
           i < k => posted[i].payload.sortierung < posted[k].payload.sortierung
    /\ sortierung = Len(posted) + 1

C4_Witness ==
    /\ Finished
    /\ failed > 0
    /\ PostedOf("regular", 1) # {}
    /\ PostedOf("oberstufe", 1) # {}

\* C5 as claimed: at the end of every run each capstone grade level has
\* exactly one submitted record.
C5_Original ==
    Finished =>
        \A j \in 0..(Len(oberstufe_jg) - 1) :
            Cardinality(PostedOf("oberstufe", j)) = 1

\* C5 amended: at the end of every run each capstone grade level that the
\* grade-level directory resolves has exactly one submitted record, whatever
\* anzahlschueler is (a capstone level the directory does not resolve has
\* none).
C5_CapstoneOne ==
    Finished =>
        \A j \in 0..(Len(oberstufe_jg) - 1) :
            Cardinality(PostedOf("oberstufe", j)) =
                IF Resolved(oberstufe_jg[j + 1]) THEN 1 ELSE 0

C5_Witness ==
    /\ Finished
    /\ Len(oberstufe_jg) = 3
    /\ anzahl_schueler = 300
    /\ \A j \in 0..2 : Cardinality(PostedOf("oberstufe", j)) = 1

RECURSIVE SumClasses(_)
SumClasses(n) ==
    IF n = 0
    THEN 0
    ELSE NumClassesThisJg(classes_per_jahrgang, remainder, n - 1)
         + SumClasses(n - 1)

\* C6: for anzahlschueler > 0 and n > 0 regular grade levels, remainder is
\* in [0, n) and the cohorts planned for the regular grade levels sum to
\* classes_per_jahrgang * n + remainder; when every regular grade level is
\* resolved that many regular records are submitted.
C6_RemainderSum ==
    (Planned /\ anzahl_schueler > 0 /\ Len(regular_jahrgaenge) > 0) =>
        LET n == Len(regular_jahrgaenge)
        IN  /\ remainder >= 0
            /\ remainder < n
            /\ SumClasses(n) = classes_per_jahrgang * n + remainder
            /\ (Finished /\ \A j \in 1..n : Resolved(regular_jahrgaenge[j])) =>
                   Cardinality({i \in 1..Len(posted) :
                                   posted[i].phase = "regular"}) =
                       classes_per_jahrgang * n + remainder

C6_Witness ==
    /\ Finished
    /\ anzahl_schueler = 100
    /\ Len(regular_jahrgaenge) = 2
    /\ Len(group.jahrgaenge) = 2
    /\ Cardinality({i \in 1..Len(posted) : posted[i].phase = "regular"}) = 4

KuerzelOf(seq) == [i \in 1..Len(seq) |-> seq[i].payload.kuerzel]

\* C7: every resolved regular grade level receives
\* max(1, floor((anzahlschueler / num_jahrgaenge) / 25)) cohorts, plus one
\* for the first `remainder` levels, num_jahrgaenge counting the capstone
\* levels too; 200 or 210 students over five regular levels give one cohort
\* "<kuerzel>a" each; 300 students over three regular and three capstone
\* levels give the cohorts a and b for each regular level.
C7_ClassesPerGrade ==
    Finished =>
        /\ \A j \in 0..(Len(regular_jahrgaenge) - 1) :
               Resolved(regular_jahrgaenge[j + 1]) =>
                   Cardinality(PostedOf("regular", j)) =
                       Max(1, (anzahl_schueler \div Len(group.jahrgaenge))
                                  \div 25)
                       + (IF j < remainder THEN 1 ELSE 0)
        /\ (group.jahrgaenge = FiveRegular /\ anzahl_schueler \in {200, 210}) =>
               KuerzelOf(posted) =
                   <<Str_05 \o <<97>>, Str_06 \o <<97>>, Str_07 \o <<97>>,
                     Str_08 \o <<97>>, Str_09 \o <<97>>>>
        /\ (group.jahrgaenge = ThreePlusThree /\ schulform = "GY"
                /\ anzahl_schueler = 300) =>
               KuerzelOf(posted) =
                   <<Str_05 \o <<97>>, Str_05 \o <<98>>,
                     Str_06 \o <<97>>, Str_06 \o <<98>>,
                     Str_07 \o <<97>>, Str_07 \o <<98>>,
                     Str_EF, Str_Q1, Str_Q2>>

C7_Witness ==
    /\ Finished
    /\ group.jahrgaenge = ThreePlusThree
    /\ schulform = "GY"
    /\ Len(posted) = 9

\* the planned submissions, as (phase, jg_idx, class_idx), in planned order
RECURSIVE RegularPlan(_)
RegularPlan(j) ==
    IF j >= Len(regular_jahrgaenge)
    THEN <<>>
    ELSE (IF Resolved(regular_jahrgaenge[j + 1])
          THEN [c \in 1..NumClassesThisJg(classes_per_jahrgang, remainder, j)
                    |-> <<"regular", j, c - 1>>]
          ELSE <<>>)
         \o RegularPlan(j + 1)

RECURSIVE OberstufePlan(_)
OberstufePlan(j) ==
    IF j >= Len(oberstufe_jg)
    THEN <<>>
    ELSE (IF Resolved(oberstufe_jg[j + 1])
          THEN <<<<"oberstufe", j, 0>>>>
          ELSE <<>>)
         \o OberstufePlan(j + 1)

PlannedSubmissions == RegularPlan(0) \o OberstufePlan(0)

PositionsOf(seq) ==
    [i \in 1..Len(seq) |-> <<seq[i].phase, seq[i].jg_idx, seq[i].class_idx>>]

CodesAnswered(rs) ==
    KuerzelOf(SelectSeq(posted, LAMBDA p : p.resp \in rs))

CacheCodes == [i \in 1..Len(cache_file.content) |->
                  cache_file.content[i].kuerzel]

\* C12 as claimed: at the end of a run the cache holds, in creation order,
\* an entry with the code of every cohort counted as created (success
\* status), and of no other.
C12_Original ==
    (Finished /\ created > 0) =>
        /\ cache_file.exists
        /\ CacheCodes = CodesAnswered({"ok_id", "ok_noid"})

\* C12, what the code does: the cache written at the end of a run holds, in
\* creation order, the cohorts whose success answer carried an id, and is
\* written only when there is such a cohort; created counts every success
\* answer.
C12_CacheOfIdentified ==
    Finished =>
        /\ cache_file.exists <=> CodesAnswered({"ok_id"}) # <<>>
        /\ CacheCodes = CodesAnswered({"ok_id"})
        /\ created = Len(CodesAnswered({"ok_id", "ok_noid"}))
        /\ \A i, k \in 1..Len(cache_file.content) :
               i < k => cache_file.content[i].id < cache_file.content[k].id

\* a run in which a success answer carried no id
C12_Witness ==
    /\ Finished
    /\ created = 3
    /\ failed = 1
    /\ Len(cache_file.content) = 2
    /\ posted[1].resp = "ok_noid"

\* nothing was sent to the server and no cache was written
NothingDone == posted = <<>> /\ created_classes = <<>> /\ cache_file = NoFile

\* C13 as claimed: for a vocational school form (BK, SB) every run returns
\* (0, 0), submits nothing and writes no cache.
C13_Original ==
    (pc = "done" /\ schulform \in {"BK", "SB"}) =>
        result = <<0, 0>> /\ NothingDone

\* C13 amended: for a vocational school form (BK, SB) whose master data was
\* fetched and carries a term id, the run returns (0, 0), submits nothing and
\* writes no cache, whatever catalog, directory and student count are, the
\* catalog not being searched; when the master data cannot be fetched or
\* carries no term id the run returns (0, 1), also without request or cache.
C13_VocationalSkip ==
    (pc = "done" /\ schulform \in {"BK", "SB"}) =>
        /\ NothingDone
        /\ group = NoneGroup
        /\ returned_at \in {"stammdaten_error", "no_abschnitt", "vocational"}
        /\ returned_at = "vocational" => result = <<0, 0>>
        /\ returned_at # "vocational" => result = <<0, 1>>
        /\ id_schuljahresabschnitt # 0 => returned_at # "no_abschnitt"
        /\ id_schuljahresabschnitt = 0 => returned_at # "vocational"

C13_Witness ==
    /\ pc = "done"
    /\ schulform = "BK"
    /\ returned_at = "vocational"
    /\ find_schulform_group(schulform, struktur) # NoneGroup
    /\ Len(find_schulform_group(schulform, struktur).jahrgaenge) = 2
    /\ anzahl_schueler = 100
    /\ result = <<0, 0>>

\* no group of the catalog lists the school form
NoGroupLists ==
    \A i \in 1..Len(struktur) : schulform \notin struktur[i].schulformen

\* the first group of the catalog that lists the school form has no grade
\* levels
FirstGroupEmpty ==
    \E i \in 1..Len(struktur) :
        /\ schulform \in struktur[i].schulformen
        /\ \A k \in 1..(i - 1) : schulform \notin struktur[k].schulformen
        /\ struktur[i].jahrgaenge = <<>>

\* C14 as claimed: when no template group lists the school form, or the
\* matching group has zero grade levels, the run submits nothing, writes no
\* cache and returns (0, 1).
C14_Original ==
    (pc = "done" /\ (NoGroupLists \/ FirstGroupEmpty)) =>
        result = <<0, 1>> /\ NothingDone

\* C14 amended: when no template group lists the school form, or the first
\* group listing it has zero grade levels, the run submits nothing and writes
\* no cache; it returns (0, 1) unless the school form is vocational (BK, SB)
\* with master data carrying a term id, which is skipped with (0, 0) before
\* the catalog is searched; for a school form that is not vocational and
\* master data that is complete the return is the one of the missing group,
\* or of the empty group or the failed fetch of the grade-level directory.
C14_NoTemplateAborts ==
    (pc = "done" /\ (NoGroupLists \/ FirstGroupEmpty)) =>
        /\ NothingDone
        /\ returned_at # "end"
        /\ result = IF returned_at = "vocational" THEN <<0, 0>> ELSE <<0, 1>>
        /\ returned_at = "vocational" => schulform \in {"BK", "SB"}
        /\ (schulform \notin {"", "BK", "SB"} /\ id_schuljahresabschnitt # 0
                /\ returned_at # "stammdaten_error") =>
               IF NoGroupLists
               THEN returned_at = "no_group"
               ELSE returned_at \in {"jahrgaenge_error", "no_jahrgaenge"}

\* "G" is listed by a first group without grade levels and by a second one
C14_Witness ==
    /\ pc = "done"
    /\ schulform = "G"
    /\ FirstGroupEmpty
    /\ Len(struktur) = 2
    /\ struktur[2].jahrgaenge # <<>>
    /\ returned_at = "no_jahrgaenge"
    /\ result = <<0, 1>>

\* the records submitted for grade level j of a phase, in submission order
RecordsOf(phase, j) ==
    SelectSeq(posted, LAMBDA p : p.phase = phase /\ p.jg_idx = j)

\* the cohorts of regular grade level j when every level is resolved
ExpectedCount(j) ==
    Max(1, (anzahl_schueler \div Len(group.jahrgaenge)) \div 25)
    + (IF j < remainder THEN 1 ELSE 0)

ExpectedCodes(j) ==
    [c \in 1..ExpectedCount(j) |->
        BaseCode(regular_jahrgaenge[j + 1]) \o SuffixRef(c - 1)]

\* C15: at the end of a run a grade level the directory does not resolve
\* (map_jahrgang_id = 0) has no submitted record and is not counted as
\* failed (failed counts the calls that failed); every resolved regular
\* level has the number of cohorts, with the codes, it has when all levels
\* resolve (the count depends on the template and the student count only),
\* and every resolved capstone level its one cohort; the sortierung values
\* follow the submissions, so skipped levels leave no gap.
C15_UnresolvedSkipped ==
    Finished =>
        /\ \A j \in 0..(Len(regular_jahrgaenge) - 1) :
               KuerzelOf(RecordsOf("regular", j)) =
                   IF Resolved(regular_jahrgaenge[j + 1])
                   THEN ExpectedCodes(j)
                   ELSE <<>>
        /\ \A j \in 0..(Len(oberstufe_jg) - 1) :
               KuerzelOf(RecordsOf("oberstufe", j)) =
                   IF Resolved(oberstufe_jg[j + 1])
                   THEN <<oberstufe_jg[j + 1].kuerzel>>
                   ELSE <<>>
        /\ \A i \in 1..Len(posted) :
               /\ posted[i].payload.idJahrgang # 0
               /\ posted[i].payload.sortierung = i
        /\ failed = Len(CodesAnswered({"http_error", "exception"}))
        /\ created + failed = Len(posted)

\* the first regular level is not resolved, the second has its two cohorts
C15_Witness ==
    /\ Finished
    /\ Len(regular_jahrgaenge) = 2
    /\ ~Resolved(regular_jahrgaenge[1])
    /\ Len(RecordsOf("regular", 1)) = 2
    /\ failed = 0
    /\ created = 2

\* the capstone family of school forms and the capstone codes
CapstoneForms == {"GY", "GE", "HI"}

CapstoneCodes == {<<69, 70>>, <<81, 49>>, <<81, 50>>}

PlannedCapstone(jg) ==
    schulform \in CapstoneForms /\ jg.kuerzel \in CapstoneCodes

\* C16: the capstone levels of a plan are the template's levels coded EF,
\* Q1 or Q2 when the school form is GY, GE or HI, in template order, and
\* the regular levels are all the others; for every other school form the
\* plan has no capstone level, and a level coded EF, Q1 or Q2 is submitted
\* like any regular level: classes_per_jahrgang (plus remainder share)
\* records with suffix-lettered codes in the regular phase.
C16_CapstoneFamilyOnly ==
    Planned =>
        /\ oberstufe_jg = SelectSeq(group.jahrgaenge, PlannedCapstone)
        /\ regular_jahrgaenge =
               SelectSeq(group.jahrgaenge, LAMBDA jg : ~PlannedCapstone(jg))
        /\ schulform \notin CapstoneForms => oberstufe_jg = <<>>
        /\ \A i \in 1..Len(posted) :
               LET p == posted[i]
               IN  IF p.phase = "oberstufe"
                   THEN /\ schulform \in CapstoneForms
                        /\ p.payload.kuerzel \in CapstoneCodes
                   ELSE /\ ~PlannedCapstone(regular_jahrgaenge[p.jg_idx + 1])
                        /\ p.payload.kuerzel =
                               BaseCode(regular_jahrgaenge[p.jg_idx + 1])
                                   \o SuffixRef(p.class_idx)
        /\ (Finished /\ schulform \notin CapstoneForms) =>
               \A j \in 0..(Len(group.jahrgaenge) - 1) :
                   Resolved(group.jahrgaenge[j + 1]) =>
                       Len(RecordsOf("regular", j)) = ExpectedCount(j)

\* school form H: EF, Q1 and Q2 each get the cohorts a and b
C16_Witness ==
    /\ Finished
    /\ schulform = "H"
    /\ group.jahrgaenge = ThreePlusThree
    /\ oberstufe_jg = <<>>
    /\ Len(posted) = 12
    /\ posted[7].payload.kuerzel = <<69, 70, 97>>
    /\ posted[12].payload.kuerzel = <<81, 50, 98>>

\* C17: at every point of a run the submitted records are the regular ones
\* followed by the capstone ones (no regular record after a capstone one),
\* each phase in the order of its grade levels in the template (and a
\* regular level's cohorts in the order of their index); hence every
\* capstone record's sortierung exceeds every regular record's; every
\* capstone record carries parallelitaet "A"; and the run never returns
\* from the capstone loop to the regular loop.
C17_RegularBeforeCapstone ==
    /\ \A i, k \in 1..Len(posted) :
           i < k =>
               /\ posted[i].phase = "oberstufe" => posted[k].phase = "oberstufe"
               /\ posted[i].phase = posted[k].phase =>
                      \/ posted[i].jg_idx < posted[k].jg_idx
                      \/ /\ posted[i].jg_idx = posted[k].jg_idx
                         /\ posted[i].class_idx < posted[k].class_idx
    /\ \A i, k \in 1..Len(posted) :
           (posted[i].phase = "regular" /\ posted[k].phase = "oberstufe") =>
               posted[k].payload.sortierung > posted[i].payload.sortierung
    /\ \A i \in 1..Len(posted) :
           posted[i].phase = "oberstufe" =>
               posted[i].payload.parallelitaet = <<65>>
    /\ pc = "regular" =>
           \A i \in 1..Len(posted) : posted[i].phase = "regular"

\* two cohorts of each of three regular levels, then EF, Q1 and Q2
C17_Witness ==
    /\ Finished
    /\ Len(posted) = 9
    /\ \A i \in 1..6 : posted[i].phase = "regular"
    /\ \A i \in 7..9 :
           /\ posted[i].phase = "oberstufe"
           /\ posted[i].payload.sortierung = i
           /\ posted[i].payload.parallelitaet = <<65>>

\* C18 as claimed: the code of every capstone record is the grade level's
\* kuerzel when its template entry has no prefix and prefix + kuerzel when it
\* has one, without suffix letter.
C18_Original ==
    \A i \in 1..Len(posted) :
        posted[i].phase = "oberstufe" =>
            posted[i].payload.kuerzel =
                BaseCode(oberstufe_jg[posted[i].jg_idx + 1])

\* C18, what the code does: the code of every capstone record is the grade
\* level's kuerzel alone, whether or not its template entry has a prefix.
C18_CapstoneCodeBare ==
    \A i \in 1..Len(posted) :
        posted[i].phase = "oberstufe" =>
            posted[i].payload.kuerzel =
                oberstufe_jg[posted[i].jg_idx + 1].kuerzel

\* the capstone level EF with prefix "0" was submitted as "EF"
C18_Witness ==
    \E i \in 1..Len(posted) :
        /\ posted[i].phase = "oberstufe"
        /\ oberstufe_jg[posted[i].jg_idx + 1] = Entry(<<48>>, <<69, 70>>)
        /\ posted[i].payload.kuerzel = <<69, 70>>

\* The (kuerzel, sortierung) pairs a run submits, as a function of what the
\* run reads alone: template, school form, student count and directory.
RefTemplate == find_schulform_group(schulform, struktur).jahrgaenge

RefRegular == SelectSeq(RefTemplate, LAMBDA jg : ~PlannedCapstone(jg))

RefCapstone == SelectSeq(RefTemplate, PlannedCapstone)

RefCount == Max(1, (anzahl_schueler \div Len(RefTemplate)) \div 25)

RECURSIVE RefRegularCodes(_)
RefRegularCodes(j) ==
    IF j > Len(RefRegular)
    THEN <<>>
    ELSE (IF Resolved(RefRegular[j])
          THEN [c \in 1..RefCount |->
                   BaseCode(RefRegular[j]) \o SuffixRef(c - 1)]
          ELSE <<>>)
         \o RefRegularCodes(j + 1)

RefCapstoneCodes ==
    LET resolved == SelectSeq(RefCapstone, Resolved)
    IN  [i \in 1..Len(resolved) |-> resolved[i].kuerzel]

RefCodes == RefRegularCodes(1) \o RefCapstoneCodes

RefPairs ==
    LET codes == RefCodes
    IN  [i \in 1..Len(codes) |-> <<codes[i], i>>]

SubmittedPairs ==
    [i \in 1..Len(posted) |->
        <<posted[i].payload.kuerzel, posted[i].payload.sortierung>>]

\* C19: the sequence of (kuerzel, sortierung) pairs submitted by a run that
\* got its master data and directory is, at every point, an initial segment
\* of RefPairs and, at the end of the run, RefPairs itself, whatever the
\* answers to the creation calls are; RefPairs depends on template, school
\* form, student count and directory only, so two such runs submit the same
\* sequence.
C19_Deterministic ==
    /\ Planned =>
           LET submitted == SubmittedPairs
               reference == RefPairs
           IN  /\ IsPrefixOf(submitted, reference)
               /\ Finished => submitted = reference
    /\ ~Planned => posted = <<>>

\* a run with two failed calls submitted the reference sequence
C19_Witness ==
    /\ Finished
    /\ failed = 2
    /\ Len(posted) = 9
    /\ posted[1].resp = "exception"
    /\ SubmittedPairs[9] = <<<<81, 50>>, 9>>
    /\ SubmittedPairs[2] = <<<<48, 53, 98>>, 2>>

\* C22 as claimed: any two distinct records submitted in one run for the
\* same grade level carry different parallelitaet values.
C22_Original ==
    \A i, k \in 1..Len(posted) :
        (i # k /\ posted[i].payload.idJahrgang = posted[k].payload.idJahrgang)
            => posted[i].payload.parallelitaet # posted[k].payload.parallelitaet

\* C22, what the code does: the parallelitaet of a regular record is the
\* uppercase of the first character of its suffix, so the records of one
\* template entry differ in it as long as their class indices are below 26,
\* and the record of index 26 (suffix "aa") repeats the "A" of index 0.
C22_FirstLetterUpper ==
    \A i, k \in 1..Len(posted) :
        LET p == posted[i]
            q == posted[k]
        IN  p.phase = "regular" =>
                /\ p.payload.parallelitaet =
                       <<SuffixRef(p.class_idx)[1] - 32>>
                /\ (q.phase = "regular" /\ p.jg_idx = q.jg_idx /\ i # k
                        /\ p.class_idx < 26 /\ q.class_idx < 26) =>
                       p.payload.parallelitaet # q.payload.parallelitaet
                /\ (q.phase = "regular" /\ p.jg_idx = q.jg_idx
                        /\ p.class_idx = 0 /\ q.class_idx = 26) =>
                       p.payload.parallelitaet = q.payload.parallelitaet

\* the 27th class of grade level 05, "05aa", carries "A" like "05a"
C22_Witness ==
    /\ Len(posted) >= 27
    /\ posted[1].payload.kuerzel = <<48, 53, 97>>
    /\ posted[27].payload.kuerzel = <<48, 53, 97, 97>>
    /\ posted[1].payload.idJahrgang = posted[27].payload.idJahrgang
    /\ posted[1].payload.parallelitaet = <<65>>
    /\ posted[27].payload.parallelitaet = <<65>>

\* the school forms whose records leave out idSchulgliederung
DenyList == {"H", "SK", "R", "SR", "S"}

\* C23: every submitted record, regular or capstone (a run that submits is
\* one of a general-education school form), has the general-education
\* fields, and has the field idSchulgliederung, with value 0, exactly when
\* the school form is none of H, SK, R, SR, S.
C23_SchulgliederungIffAllowed ==
    \A i \in 1..Len(posted) :
        LET payload == posted[i].payload
        IN  /\ schulform \notin {"BK", "SB"}
            /\ "idAllgemeinbildendOrganisationsform" \in DOMAIN payload
            /\ "idBerufsbildendOrganisationsform" \notin DOMAIN payload
            /\ "idSchulgliederung" \in DOMAIN payload
                   <=> schulform \notin DenyList
            /\ schulform \notin DenyList => payload.idSchulgliederung = 0

\* school form S: the records of 05 and of EF, regular there, lack the field
C23_Witness ==
    /\ Finished
    /\ schulform = "S"
    /\ Len(posted) = 4
    /\ \A i \in 1..4 : "idSchulgliederung" \notin DOMAIN posted[i].payload

\* C26 as claimed: after any sequence of runs the cache file holds only
\* classes created by the most recent run.
C26_Original ==
    pc = "done" =>
        \A i \in 1..Len(cache_file.content) :
            \E k \in 1..Len(created_classes) :
                cache_file.content[i] = created_classes[k]

\* C26, what the code does: a run that created a class with an id replaces
\* the cache file by the list of its own classes; every other run leaves the
\* file as it found it, so the file holds the classes of the most recent run
\* that created a class with an id.
C26_CacheOfLastCreatingRun ==
    [][/\ (pc = "finish" /\ pc' = "done") =>
              cache_file' = IF created_classes # <<>>
                            THEN [exists |-> TRUE, content |-> created_classes]
                            ELSE cache_file
       /\ ~(pc = "finish" /\ pc' = "done") => cache_file' = cache_file
      ]_vars

\* the run before created a class; this run was skipped as vocational and
\* the file still lists that class
C26_Witness ==
    /\ pc = "done"
    /\ returned_at = "vocational"
    /\ created_classes = <<>>
    /\ cache_file.exists
    /\ Len(cache_file.content) = 2

\* the sortierung values of the records whose call got the answers in rs
SortierungAnswered(rs) ==
    {posted[i].payload.sortierung :
        i \in {k \in 1..Len(posted) : posted[k].resp \in rs}}

\* C27: a step that submits a record gives it the current value of the
\* counter and advances the counter by one, whatever the answer; a step
\* that skips an unresolved grade level leaves the counter; and so the
\* values 1..n of n submitted records are shared between the created and
\* the failed ones: a value missing among the created cohorts is the value
\* of a failed submission.
C27_CounterPerSubmission ==
    [][/\ posted' # posted =>
              /\ Len(posted') = Len(posted) + 1
              /\ posted'[Len(posted')].payload.sortierung = sortierung
              /\ sortierung' = sortierung + 1
       /\ (posted' = posted /\ pc' # "start") => sortierung' = sortierung
       /\ pc' \in {"regular", "oberstufe", "finish", "done"} =>
              /\ SortierungAnswered({"ok_id", "ok_noid"})'
                     \cup SortierungAnswered({"http_error", "exception"})'
                     = 1..Len(posted')
              /\ SortierungAnswered({"ok_id", "ok_noid"})'
                     \cap SortierungAnswered({"http_error", "exception"})'
                     = {}
      ]_vars

\* the first level was skipped, the first submission failed, the second
\* succeeded with sortierung 2
C27_Witness ==
    /\ Finished
    /\ Len(regular_jahrgaenge) = 2
    /\ ~Resolved(regular_jahrgaenge[1])
    /\ Len(posted) = 2
    /\ posted[1].resp = "http_error"
    /\ posted[2].resp = "ok_id"
    /\ posted[2].payload.sortierung = 2
    /\ sortierung = 3

CacheEntry(k, has_id) ==
    [id |-> IF has_id THEN k ELSE 0,
     kuerzel |-> Str_05 \o generate_class_suffix(k - 1)]

Caches ==
    UNION {{[k \in 1..n |-> CacheEntry(k, h[k])] : h \in [1..n -> BOOLEAN]} :
              n \in 0..MaxCohorts}

\* /lehrer: n teachers with the ids 1..n
Roster(n) == [i \in 1..n |-> [id |-> i]]

InitLeaders ==
    /\ SuffixIdle
    /\ KindergartenIdle
    /\ ClassesIdle
    /\ cache_file \in
           {NoFile} \cup {[exists |-> TRUE, content |-> c] : c \in Caches}
    /\ lehrer \in {Roster(n) : n \in 0..MaxStaff}
    /\ al_pc = "start"
    /\ classes = <<>>
    /\ teacher_ids = <<>>
    /\ teacher_assignments = <<>>
    /\ al_idx = 0
    /\ selected = <<>>
    /\ warned = FALSE
    /\ assigned = 0
    /\ al_failed = 0
    /\ patched = <<>>
    /\ al_result = NoResult
    /\ al_returned_at = ""

\* a return statement; at names the place of the return
AL_Return(a, f, at) ==
    /\ al_pc' = "done"
    /\ al_result' = <<a, f>>
    /\ al_returned_at' = at

\* lines 497-502
AL_NoCache ==
    /\ al_pc = "start"
    /\ ~cache_file.exists
    /\ AL_Return(0, 1, "no_cache")
    /\ UNCHANGED <<suffixVars, classVars, cache_file, kgVars,
                   lehrer, classes,
                   teacher_ids, teacher_assignments, al_idx, selected, warned,
                   assigned, al_failed, patched>>

\* lines 504-515: fetch_all_teachers raises
AL_TeachersError ==
    /\ al_pc = "start"
    /\ cache_file.exists
    /\ classes' = cache_file.content
    /\ AL_Return(0, 1, "teachers_error")
    /\ UNCHANGED <<suffixVars, classVars, cache_file, kgVars,
                   lehrer, teacher_ids,
                   teacher_assignments, al_idx, selected, warned, assigned,
                   al_failed, patched>>

\* lines 517-519 with the return value of the other early returns
AL_NoClasses_failed ==
    /\ al_pc = "start"
    /\ cache_file.exists
    /\ classes' = cache_file.content
    /\ Len(classes') = 0
    /\ AL_Return(0, 1, "no_classes")
    /\ UNCHANGED <<suffixVars, classVars, cache_file, kgVars,
                   lehrer, teacher_ids,
                   teacher_assignments, al_idx, selected, warned, assigned,
                   al_failed, patched>>

\* lines 517-519
AL_NoClasses ==
    /\ al_pc = "start"
    /\ cache_file.exists
    /\ classes' = cache_file.content
    /\ Len(classes') = 0
    /\ AL_Return(0, 0, "no_classes")
    /\ UNCHANGED <<suffixVars, classVars, cache_file, kgVars,
                   lehrer, teacher_ids,
                   teacher_assignments, al_idx, selected, warned, assigned,
                   al_failed, patched>>

\* lines 521-523
AL_NoTeachers ==
    /\ al_pc = "start"
    /\ cache_file.exists
    /\ classes' = cache_file.content
    /\ Len(classes') # 0
    /\ Len(lehrer) = 0
    /\ AL_Return(0, 1, "no_teachers")
    /\ UNCHANGED <<suffixVars, classVars, cache_file, kgVars,
                   lehrer, teacher_ids,
                   teacher_assignments, al_idx, selected, warned, assigned,
                   al_failed, patched>>

\* lines 525-547
AL_Begin ==
    /\ al_pc = "start"
    /\ cache_file.exists
    /\ classes' = cache_file.content
    /\ Len(classes') # 0
    /\ Len(lehrer) # 0
    /\ teacher_assignments' = [tid \in {lehrer[i].id : i \in 1..Len(lehrer)} |-> 0]
    /\ teacher_ids' = [i \in 1..Len(lehrer) |-> lehrer[i].id]
    /\ assigned' = 0
    /\ al_failed' = 0
    /\ al_idx' = 1
    /\ al_pc' = "loop"
    /\ UNCHANGED <<suffixVars, classVars, cache_file, kgVars,
                   lehrer, selected, warned,
                   patched, al_result,
                   al_returned_at>>

\* [tid for tid in teacher_ids if teacher_assignments[tid] < 2]
Available_le2(ids, loads) == SelectSeq(ids, LAMBDA tid : loads[tid] <= 2)

Available(ids, loads) == SelectSeq(ids, LAMBDA tid : loads[tid] < 2)

\* lines 561-564: fewer than 2 available teachers widen the pool to all
Widened_lt1(available) == Len(available) < 1

Widened(available) == Len(available) < 2

Pool_nowiden(available, ids) == available

Pool(available, ids) == IF Widened(available) THEN ids ELSE available

\* k entries at any positions
Sample_replacing(seq, k) ==
    IF k = 1
    THEN {<<seq[i]>> : i \in 1..Len(seq)}
    ELSE {<<seq[p[1]], seq[p[2]]>> : p \in (1..Len(seq)) \X (1..Len(seq))}

\* random.sample(seq, k): k entries at pairwise distinct positions
Sample(seq, k) ==
    IF k = 1
    THEN {<<seq[i]>> : i \in 1..Len(seq)}
    ELSE {<<seq[p[1]], seq[p[2]]>> :
              p \in {q \in (1..Len(seq)) \X (1..Len(seq)) : q[1] # q[2]}}

Selections_nofill(pool, ids) ==
    IF Len(pool) >= 2 THEN Sample(pool, 2) ELSE {pool}

\* lines 566-571
Selections(pool, ids) ==
    IF Len(pool) >= 2
    THEN Sample(pool, 2)
    ELSE {pool \o s : s \in Sample(ids, 2 - Len(pool))}

\* lines 573-575
RECURSIVE Count(_, _)
Count(sel, tid) ==
    IF sel = <<>>
    THEN 0
    ELSE (IF Head(sel) = tid THEN 1 ELSE 0) + Count(Tail(sel), tid)

Incremented(loads, sel) ==
    [tid \in DOMAIN loads |-> loads[tid] + Count(sel, tid)]

AL_SkipNoId_uncounted ==
    /\ al_pc = "loop"
    /\ al_idx <= Len(classes)
    /\ classes[al_idx].id = 0
    /\ al_idx' = al_idx + 1
    /\ UNCHANGED <<suffixVars, classVars, cache_file, kgVars,
                   lehrer, al_pc, classes,
                   teacher_ids, teacher_assignments, selected, warned, assigned,
                   al_failed, patched, al_result,
                   al_returned_at>>

\* lines 553-556: a cache entry without id
AL_SkipNoId ==
    /\ al_pc = "loop"
    /\ al_idx <= Len(classes)
    /\ classes[al_idx].id = 0
    /\ al_failed' = al_failed + 1
    /\ al_idx' = al_idx + 1
    /\ UNCHANGED <<suffixVars, classVars, cache_file, kgVars,
                   lehrer, al_pc, classes,
                   teacher_ids, teacher_assignments, selected, warned, assigned,
                   patched, al_result,
                   al_returned_at>>

\* a step that counts the selected teachers only when the update succeeded
AssignOne_refund(resp) ==
    /\ al_pc = "loop"
    /\ al_idx <= Len(classes)
    /\ classes[al_idx].id # 0
    /\ LET available == Available(teacher_ids, teacher_assignments)
           pool == Pool(available, teacher_ids)
       IN  /\ warned' = Widened(available)
           /\ \E sel \in Selections(pool, teacher_ids) :
                  /\ selected' = sel
                  /\ teacher_assignments' =
                         IF resp = "ok"
                         THEN Incremented(teacher_assignments, sel)
                         ELSE teacher_assignments
    /\ patched' = Append(patched, classes[al_idx].id)
    /\ assigned' = IF resp = "ok" THEN assigned + 1 ELSE assigned
    /\ al_failed' = IF resp = "ok" THEN al_failed ELSE al_failed + 1
    /\ al_idx' = al_idx + 1
    /\ UNCHANGED <<suffixVars, classVars, cache_file, kgVars,
                   lehrer, al_pc, classes,
                   teacher_ids, al_result,
                   al_returned_at>>

\* lines 558-605: one class with an id; resp is the answer to the PATCH
AssignOne(resp) ==
    /\ al_pc = "loop"
    /\ al_idx <= Len(classes)
    /\ classes[al_idx].id # 0
    /\ LET available == Available(teacher_ids, teacher_assignments)
           pool == Pool(available, teacher_ids)
       IN  /\ warned' = Widened(available)
           /\ \E sel \in Selections(pool, teacher_ids) :
                  /\ selected' = sel
                  /\ teacher_assignments' = Incremented(teacher_assignments, sel)
    /\ patched' = Append(patched, classes[al_idx].id)
    /\ assigned' = IF resp = "ok" THEN assigned + 1 ELSE assigned
    /\ al_failed' = IF resp = "ok" THEN al_failed ELSE al_failed + 1
    /\ al_idx' = al_idx + 1
    /\ UNCHANGED <<suffixVars, classVars, cache_file, kgVars,
                   lehrer, al_pc, classes,
                   teacher_ids, al_result,
                   al_returned_at>>

AL_Assigned ==
    /\ al_pc = "loop"
    /\ AssignOne("ok")

AL_HttpError ==
    /\ al_pc = "loop"
    /\ AssignOne("http_error")

AL_Exception ==
    /\ al_pc = "loop"
    /\ AssignOne("exception")

\* lines 607-624
AL_Finish ==
    /\ al_pc = "loop"
    /\ al_idx > Len(classes)
    /\ AL_Return(assigned, al_failed, "end")
    /\ UNCHANGED <<suffixVars, classVars, cache_file, kgVars,
                   lehrer, classes,
                   teacher_ids, teacher_assignments, al_idx, selected, warned,
                   assigned, al_failed, patched>>

NextLeaders ==
    \/ AL_NoCache
    \/ AL_TeachersError
    \/ AL_NoClasses
    \/ AL_NoTeachers
    \/ AL_Begin
    \/ AL_SkipNoId
    \/ AL_Assigned
    \/ AL_HttpError
    \/ AL_Exception
    \/ AL_Finish

SpecLeaders == InitLeaders /\ [][NextLeaders]_vars

(***************************************************************************)
(* Claims about assign_class_leaders (SpecLeaders).                        *)
(***************************************************************************)
RosterDistinct ==
    \A i, k \in 1..Len(lehrer) : i # k => lehrer[i].id # lehrer[k].id

\* C1: over a roster of pairwise distinct staff ids with
\* staffCount >= 2 * cohortCount, no teacher_assignments count exceeds 2
\* after any processed cohort, whatever the random selections are.
C1_LoadAtMostTwo ==
    (al_pc \in {"loop", "done"} /\ RosterDistinct
        /\ Len(lehrer) >= 2 * Len(classes)) =>
        \A tid \in DOMAIN teacher_assignments : teacher_assignments[tid] <= 2

C1_Witness ==
    /\ al_pc = "done"
    /\ Len(classes) = 3
    /\ Len(lehrer) = 6
    /\ Len(patched) = 3
    /\ \E tid \in DOMAIN teacher_assignments : teacher_assignments[tid] = 2

\* C2: every submitted leadership update carries exactly 2 staff ids, and
\* they are distinct whenever the roster has at least 2 distinct members,
\* also in a step that widened the pool to the whole roster.
C2_TwoDistinctLeaders ==
    patched # <<>> =>
        /\ Len(selected) = 2
        /\ Cardinality({lehrer[i].id : i \in 1..Len(lehrer)}) >= 2 =>
               selected[1] # selected[2]

C2_Witness ==
    /\ patched # <<>>
    /\ warned
    /\ Len(lehrer) >= 2
    /\ selected[1] # selected[2]

\* the ids of the first n cached classes that carry an id, in cache order
HandledIds(n) ==
    LET with_id == SelectSeq(SubSeq(classes, 1, n), LAMBDA k : k.id # 0)
    IN  [i \in 1..Len(with_id) |-> with_id[i].id]

NoIdCount(n) == Cardinality({i \in 1..n : classes[i].id = 0})

RECURSIVE SumLoads(_, _)
SumLoads(loads, tids) ==
    IF tids = {}
    THEN 0
    ELSE LET tid == CHOOSE t \in tids : TRUE
         IN  loads[tid] + SumLoads(loads, tids \ {tid})

LoadSum == SumLoads(teacher_assignments, DOMAIN teacher_assignments)

\* the function returned before its loop
ReturnedEarly == al_pc = "done" /\ al_idx = 0

CachedCohorts == IF cache_file.exists THEN Len(cache_file.content) ELSE 0

FreeBefore ==
    {tid \in DOMAIN teacher_assignments : teacher_assignments[tid] < 2}

\* a step that takes the load of tid above 2
RaisesAbove2(tid) ==
    /\ teacher_assignments'[tid] > 2
    /\ teacher_assignments'[tid] > teacher_assignments[tid]

\* C20: every step of assign_class_leaders that raises a teacher's load
\* above 2 is a step that found fewer than 2 teachers with load < 2, drew
\* its two leaders from the whole roster and printed the warning 'Nicht
\* genug verfuegbare Lehrkraefte' for that class; a step without the
\* warning selects only teachers whose load was below 2, and leaves every
\* load it changes at 2 or less.
C20_OverloadOnlyWithWarning ==
    [][/\ (\E tid \in DOMAIN teacher_assignments' : RaisesAbove2(tid)) =>
              /\ warned'
              /\ Cardinality(FreeBefore) < 2
              /\ patched' # patched
       /\ (patched' # patched /\ ~warned') =>
              /\ Cardinality(FreeBefore) >= 2
              /\ \A i \in 1..Len(selected') : selected'[i] \in FreeBefore
              /\ selected'[1] # selected'[2]
       /\ (patched' # patched /\ warned') => Cardinality(FreeBefore) < 2
      ]_vars

\* a step that warned took a teacher from 2 classes to 3
C20_Witness ==
    /\ warned
    /\ Len(lehrer) >= 2
    /\ \E tid \in DOMAIN teacher_assignments :
           /\ teacher_assignments[tid] = 3
           /\ Count(selected, tid) = 1

NoOverload ==
    \A tid \in DOMAIN teacher_assignments : teacher_assignments[tid] <= 2

C25_LoadSumTwicePerCohort ==
    (al_pc \in {"loop", "done"} /\ al_idx > 0) =>
        LET k == (al_idx - 1) - NoIdCount(al_idx - 1)
        IN  /\ DOMAIN teacher_assignments =
                   {lehrer[i].id : i \in 1..Len(lehrer)}
            /\ \A tid \in DOMAIN teacher_assignments :
                   teacher_assignments[tid] >= 0
            /\ al_idx = 1 => LoadSum = 0
            /\ Len(patched) = k
            /\ LoadSum = 2 * k
            /\ assigned <= k

\* three classes with id, two of the three updates failed
C25_Witness ==
    /\ al_pc = "done"
    /\ Len(classes) = 3
    /\ NoIdCount(3) = 0
    /\ assigned = 1
    /\ al_failed = 2
    /\ LoadSum = 6

\* C29: assign_class_leaders sends no update when the cache file is absent
\* (returns (0, 1)), when fetching the teachers fails or yields none (returns
\* (0, 1)), or when the cache is empty and the teachers were fetched (returns
\* (0, 0), also when no teacher came back: the classes are looked at first);
\* every update sent is for a class of the cache that carries an id
CachedIds == {cache_file.content[k].id : k \in 1..Len(cache_file.content)}

max_retries == 3

\* f"{prefix} {name}{suffix}": a name is told apart by its prefix-name pair
\* and its suffix (suffix 0 is the empty one); no suffix is a number, so the
\* numbered names of the fallback differ from all of them
KitaName(base, sfx) == [base |-> base, suffix |-> sfx, counter |-> 0]

\* f"{base_name} {counter}"
NumberedName(base, counter) ==
    [base |-> base, suffix |-> 0, counter |-> counter]

FullNames ==
    {KitaName(b, x) : b \in 1..MaxBases, x \in 0..(MaxSuffixes - 1)}

\* counter = 1; while f"{base_name} {counter}" in existing_names: counter += 1
FirstFreeCounter(base, existing_names) ==
    CHOOSE c \in 1..(Cardinality(existing_names) + 1) :
        /\ NumberedName(base, c) \notin existing_names
        /\ \A d \in 1..(c - 1) : NumberedName(base, d) \in existing_names

\* the same, returning whatever was drawn
generate_kindergarten_name_unchecked(existing_names) == FullNames

\* the names generate_kindergarten_name can return: a drawn name that is not
\* in existing_names, or, when all 100 draws hit existing names, the first
\* free numbered name of a drawn base
generate_kindergarten_name(existing_names) ==
    (FullNames \ existing_names)
    \cup (IF FullNames \cap existing_names # {}
          THEN {NumberedName(b, FirstFreeCounter(b, existing_names)) :
                    b \in 1..MaxBases}
          ELSE {})

\* /schule/stammdaten: no answer, or the school form it names
NoSchoolData == [schulform |-> "None"]
SchoolData == {NoSchoolData} \cup {[schulform |-> f] : f \in {"G", "GY"}}

relevant_schulformen == {"G", "PS", "S", "V", "WF"}

\* {e['bezeichnung'] for e in kindergarten_entries}
BatchNames ==
    {kindergarten_entries[k].bezeichnung : k \in 1..Len(kindergarten_entries)}

InitKindergarten ==
    /\ SuffixIdle
    /\ ClassesIdle
    /\ cache_file = NoFile
    /\ LeadersIdle
    /\ school_data \in SchoolData
    /\ kg_pc = "start"
    /\ kindergarten_entries = <<>>
    /\ kg_i = 0
    /\ retry_attempt = 0
    /\ created_count = 0
    /\ failed_count = 0
    /\ kg_posted = <<>>
    /\ kg_result = NoResult

KG_Return(c, f) ==
    /\ kg_pc' = "done"
    /\ kg_result' = <<c, f>>

\* lines 231-236
KG_NoSchoolData ==
    /\ kg_pc = "start"
    /\ school_data = NoSchoolData
    /\ KG_Return(0, 1)
    /\ UNCHANGED <<suffixVars, classVars, cache_file, leaderVars, school_data,
                   kindergarten_entries, kg_i, retry_attempt, created_count,
                   failed_count, kg_posted>>

\* lines 238-246
KG_NotRelevant ==
    /\ kg_pc = "start"
    /\ school_data # NoSchoolData
    /\ school_data.schulform \notin relevant_schulformen
    /\ KG_Return(0, 0)
    /\ UNCHANGED <<suffixVars, classVars, cache_file, leaderVars, school_data,
                   kindergarten_entries, kg_i, retry_attempt, created_count,
                   failed_count, kg_posted>>

\* lines 250-256: load_street_names raises
KG_StreetsError ==
    /\ kg_pc = "start"
    /\ school_data # NoSchoolData
    /\ school_data.schulform \in relevant_schulformen
    /\ KG_Return(0, 1)
    /\ UNCHANGED <<suffixVars, classVars, cache_file, leaderVars, school_data,
                   kindergarten_entries, kg_i, retry_attempt, created_count,
                   failed_count, kg_posted>>

\* lines 250-253: the street names are loaded
KG_StreetsLoaded ==
    /\ kg_pc = "start"
    /\ school_data # NoSchoolData
    /\ school_data.schulform \in relevant_schulformen
    /\ kg_pc' = "generate"
    /\ UNCHANGED <<suffixVars, classVars, cache_file, leaderVars, school_data,
                   kindergarten_entries, kg_i, retry_attempt, created_count,
                   failed_count, kg_posted, kg_result>>

\* generate_kindergarten_entries, one pass of its loop (lines 188-206)
KG_GenerateEntry ==
    /\ kg_pc = "generate"
    /\ Len(kindergarten_entries) < MaxEntries
    /\ \E name \in generate_kindergarten_name(BatchNames) :
           kindergarten_entries' =
               Append(kindergarten_entries,
                      [bezeichnung |-> name,
                       sortierung |-> Len(kindergarten_entries) + 1])
    /\ UNCHANGED <<suffixVars, classVars, cache_file, leaderVars, school_data,
                   kg_pc, kg_i, retry_attempt, created_count, failed_count,
                   kg_posted, kg_result>>

\* lines 258-271: the batch is complete, the loop over it starts
KG_StartLoop ==
    /\ kg_pc = "generate"
    /\ Len(kindergarten_entries) = MaxEntries
    /\ kg_pc' = "submit"
    /\ kg_i' = 1
    /\ retry_attempt' = 0
    /\ created_count' = 0
    /\ failed_count' = 0
    /\ UNCHANGED <<suffixVars, classVars, cache_file, leaderVars, school_data,
                   kindergarten_entries, kg_posted, kg_result>>

\* one pass of "for retry_attempt in range(max_retries)" (lines 277-322): the
\* entry, renamed on a retry, is posted and the answer resp is handled
Submit(resp) ==
    /\ kg_pc = "submit"
    /\ kg_i <= Len(kindergarten_entries)
    /\ \E name \in (IF retry_attempt > 0
                    THEN generate_kindergarten_name(BatchNames)
                    ELSE {kindergarten_entries[kg_i].bezeichnung}) :
           /\ kindergarten_entries' =
                  [kindergarten_entries EXCEPT ![kg_i].bezeichnung = name]
           /\ kg_posted' = <<[i |-> kg_i,
                              retry_attempt |-> retry_attempt,
                              bezeichnung |-> name,
                              resp |-> resp]>>
    /\ created_count' =
           IF resp = "ok" THEN created_count + 1 ELSE created_count
    /\ failed_count' =
           IF \/ resp \in {"http_error", "exception"}
              \/ resp = "duplicate" /\ ~(retry_attempt < max_retries - 1)
           THEN failed_count + 1
           ELSE failed_count
    /\ IF resp = "duplicate" /\ retry_attempt + 1 < max_retries
       THEN kg_i' = kg_i /\ retry_attempt' = retry_attempt + 1
       ELSE kg_i' = kg_i + 1 /\ retry_attempt' = 0
    /\ UNCHANGED <<suffixVars, classVars, cache_file, leaderVars, school_data,
                   kg_pc, kg_result>>

\* lines 301-305: HTTP 200 or 201
KG_Created ==
    /\ kg_pc = "submit"
    /\ Submit("ok")

\* lines 306-309: HTTP 400 'bereits vorhanden' with a retry left
KG_Duplicate ==
    /\ kg_pc = "submit"
    /\ retry_attempt < max_retries - 1
    /\ Submit("duplicate")

\* lines 306-312: HTTP 400 'bereits vorhanden' on the last retry
KG_RetriesExhausted ==
    /\ kg_pc = "submit"
    /\ retry_attempt = max_retries - 1
    /\ Submit("duplicate")

\* lines 313-317: any other answer
KG_HttpError ==
    /\ kg_pc = "submit"
    /\ Submit("http_error")

\* lines 319-322: requests.exceptions.RequestException
KG_Exception ==
    /\ kg_pc = "submit"
    /\ Submit("exception")

\* lines 328-336
KG_Finish ==
    /\ kg_pc = "submit"
    /\ kg_i > Len(kindergarten_entries)
    /\ KG_Return(created_count, failed_count)
    /\ UNCHANGED <<suffixVars, classVars, cache_file, leaderVars, school_data,
                   kindergarten_entries, kg_i, retry_attempt, created_count,
                   failed_count, kg_posted>>

NextKindergarten ==
    \/ KG_NoSchoolData
    \/ KG_NotRelevant
    \/ KG_StreetsError
    \/ KG_StreetsLoaded
    \/ KG_GenerateEntry
    \/ KG_StartLoop
    \/ KG_Created
    \/ KG_Duplicate
    \/ KG_RetriesExhausted
    \/ KG_HttpError
    \/ KG_Exception
    \/ KG_Finish

SpecKindergarten == InitKindergarten /\ [][NextKindergarten]_vars

(***************************************************************************)
(* Claims about populate_kindergarten (SpecKindergarten).                  *)
(***************************************************************************)
\* the answers after which the retry loop of an entry is left
Settles(p) == p.resp # "duplicate" \/ p.retry_attempt = max_retries - 1

\* a step that submits: the request sent is the one in kg_posted'
Submits == kg_posted' # kg_posted

\* what a step of populate_kindergarten does to the counters and the batch
SubmitStep ==
    /\ Submits =>
            LET p == kg_posted'[1]
                counted == IF Settles(p) THEN 1 ELSE 0
            IN  /\ p.i = kg_i
                /\ p.retry_attempt = retry_attempt
                /\ p.retry_attempt < max_retries
                /\ p.bezeichnung = kindergarten_entries'[p.i].bezeichnung
                /\ IF p.retry_attempt = 0
                   THEN /\ p.bezeichnung =
                               kindergarten_entries[p.i].bezeichnung
                        /\ kg_posted = <<>> => p.i = 1
                        /\ kg_posted # <<>> =>
                               /\ kg_posted[1].i = p.i - 1
                               /\ Settles(kg_posted[1])
                   ELSE /\ kg_posted # <<>>
                        /\ kg_posted[1].i = p.i
                        /\ kg_posted[1].retry_attempt = p.retry_attempt - 1
                        /\ kg_posted[1].resp = "duplicate"
                        /\ kg_posted[1].bezeichnung \in BatchNames
                        /\ p.bezeichnung \notin BatchNames
                /\ created_count' =
                       created_count + (IF p.resp = "ok" THEN 1 ELSE 0)
                /\ created_count' + failed_count' =
                       created_count + failed_count + counted
                /\ kg_i' = kg_i + counted
    /\ ~Submits =>
           created_count' = created_count /\ failed_count' = failed_count
    /\ kg_pc' = "submit" => created_count' + failed_count' = kg_i' - 1
    /\ (kg_pc' = "done" /\ kg_posted' # <<>>) =>
           /\ kg_result' = <<created_count', failed_count'>>
           /\ created_count' + failed_count' = Len(kindergarten_entries')
           /\ Len(kindergarten_entries') = MaxEntries

\* C30: every entry is submitted at most max_retries = 3 times, the entries
\* in batch order; a further submission of an entry follows only a
\* duplicate-name rejection of the previous one and carries a regenerated
\* name that is none of the names in the batch at that moment (the rejected
\* name among them); the submission after which an entry leaves the loop
\* counts it once, as created when it was accepted and as failed otherwise,
\* and no other submission counts, so created_count + failed_count is the
\* number of entries that left the loop and, when the function returns, the
\* number of entries
C30_RetryBoundedCountedOnce == [][SubmitStep]_vars

\* a run of two entries returned (1, 1) and its last entry was accepted on
\* its third submission, after two duplicate-name rejections
C30_Witness ==
    /\ kg_pc = "done"
    /\ kg_result = <<1, 1>>
    /\ Len(kindergarten_entries) = 2
    /\ kg_posted # <<>>
    /\ kg_posted[1].i = 2
    /\ kg_posted[1].retry_attempt = max_retries - 1
    /\ kg_posted[1].resp = "ok"

=============================================================================
